---- MODULE Spec2Model ----
(***************************************************************************)
(* A model of mech/utils.py: the instance registry (instances,             *)
(* settle_instance, index_active_instance, init_mechfile), the box cache   *)
(* (add_box_url, add_box_file, init_box) and the descriptor resolution     *)
(* (build_mechfile).  Processes are separate invocations of the tool; the  *)
(* file system (data directory, index document, lock file, mechfiles, box  *)
(* cache) is the state they share.                                         *)
(***************************************************************************)
EXTENDS Naturals, Sequences, FiniteSets, TLC

(***************************************************************************)
(* Values                                                                  *)
(***************************************************************************)
Procs == {"p1", "p2"}
Names == {"n1", "n2"}
Paths == {"A", "B"}

\* A record of the index is modelled by what instance_data.get('path') gives:
\* a directory, "" for a record whose path is missing or empty, "None" for
\* the falsy values None and {}.
NoPath == ""
None == "None"
Rec(x) == [path |-> x]
EmptyRec == Rec(None)
Records == {Rec(x) : x \in Paths \cup {NoPath}}
Truthy(d) == d # EmptyRec

Free == "free"
EmptyDoc == [n \in {} |-> EmptyRec]
Docs == UNION {[S -> Records] : S \in SUBSET Names}

VARIABLES
    dataDir,        \* os.path.exists(DATA_DIR)
    index,          \* the index document: [st: absent | ok | corrupt, doc]
    lock,           \* holder of index.lock, or Free
    mechfiles,      \* the directories that hold a mechfile
    pc,             \* each process's position
    op,             \* the function each process was invoked for
    instance_name,  \* argument instance_name
    obj,            \* argument obj (EmptyRec when not given)
    force,          \* argument force
    instances,      \* the local `instances` of the call
    keys,           \* list(instances), the snapshot the prune loop walks
    todo,           \* the part of keys the loop has not visited yet
    updated,        \* the local `updated`
    instance_data,  \* the local `instance_data` (the value returned)
    bm,             \* a call of build_mechfile: its inputs and its outcome
    box,            \* the file at the cache path of (name, version, basename)
    boxdir,         \* whether the directory of the cache path exists
    osname,         \* os.name of the machine
    bp,             \* each process's call of init_box: position and locals
    vx,             \* a .vmx file and the runs of update_vmx on it
    lm              \* a call of load_mechfile: its inputs, position and outcome

regvars == <<dataDir, index, lock, mechfiles, pc, op, instance_name, obj, force,
             instances, keys, todo, updated, instance_data>>

boxvars == <<box, boxdir, osname, bp>>

filevars == <<vx, lm>>

vars == <<regvars, bm, boxvars, filevars>>

locals == <<instances, keys, todo, updated, instance_data>>
args == <<op, instance_name, obj, force>>

Absent == [st |-> "absent", doc |-> EmptyDoc]
Corrupt == [st |-> "corrupt", doc |-> EmptyDoc]
Ok(d) == [st |-> "ok", doc |-> d]

(***************************************************************************)
(* Pure parts of instances() and settle_instance()                         *)
(***************************************************************************)
\* (mutant) the test forgets to look for the mechfile
Unexistent_PathOnly(rec) == rec.path \in {NoPath, None}

\* l.140-141 / l.169-170: the test that prunes a record
Unexistent(rec) == rec.path \in {NoPath, None} \/ rec.path \notin mechfiles

\* (mutant) the candidate is installed whether or not a record exists
Installs_Always(insts, n, o, f) == Truthy(o)

\* l.175-181: the record settled for instance_name
Installs(insts, n, o, f) ==
    /\ (n \notin DOMAIN insts \/ f)
    /\ Truthy(o)

SettledData(insts, n, o, f) ==
    IF n \notin DOMAIN insts \/ f
    THEN IF Truthy(o) THEN o ELSE EmptyRec
    ELSE insts[n]

SettledInstances(insts, n, o, f) ==
    IF Installs(insts, n, o, f)
    THEN [k \in DOMAIN insts \cup {n} |-> IF k = n THEN o ELSE insts[k]]
    ELSE insts

\* (mutant) the lock is taken without regard to its holder
LockAvailable_Ignored(p) == TRUE

\* FileLock(index_lock, timeout=3): the lock can be taken when nobody holds it
LockAvailable(p) == lock = Free

\* (mutant) the lock is left held
Released_Kept(p) == lock

\* the `with` statement releases the lock on every exit of its block
Released(p) == Free

Terminal == {"returned", "exit_locked", "raised", "exit_duplicate", "exit_build"}
Holding == {"load", "prune", "settle", "dump", "return"}

(***************************************************************************)
(* build_mechfile.  A string is the sequence of its tokens: the separators *)
(* "/" and "." and the words between them; "" is the empty sequence, which *)
(* also stands for None where the code only tests truth.                   *)
(***************************************************************************)
MaxVersions == 2
MaxProviders == 2

Min(S) == CHOOSE x \in S : \A y \in S : x <= y
Max(S) == CHOOSE x \in S : \A y \in S : x >= y

\* str.startswith
StartsWith(str, prefix) ==
    /\ Len(str) >= Len(prefix)
    /\ SubSeq(str, 1, Len(prefix)) = prefix

\* `marker in str`
Contains(str, marker) ==
    \E i \in 1..(Len(str) + 1) :
        /\ i + Len(marker) - 1 <= Len(str)
        /\ SubSeq(str, i, i + Len(marker) - 1) = marker

\* os.path.basename: what follows the last "/"
Basename(str) ==
    LET S == {i \in 1..Len(str) : str[i] = "/"}
    IN  IF S = {} THEN str ELSE SubSeq(str, Max(S) + 1, Len(str))

\* os.path.splitext(b)[0]: b up to its last ".", leading dots not counted
SplitextRoot(b) ==
    LET D == {i \in 1..Len(b) : b[i] = "." /\ \E j \in 1..(i - 1) : b[j] # "."}
    IN  IF D = {} THEN b ELSE SubSeq(b, 1, Max(D) - 1)

\* l.237: (descriptor.split('/', 2) + ['', ''])[:3]
Split3(str) ==
    LET S == {i \in 1..Len(str) : str[i] = "/"}
    IN  IF S = {} THEN <<str, <<>>, <<>>>>
        ELSE LET i == Min(S)
                 T == {j \in S : j > i}
             IN  IF T = {} THEN <<SubSeq(str, 1, i - 1), SubSeq(str, i + 1, Len(str)), <<>>>>
                 ELSE <<SubSeq(str, 1, i - 1),
                        SubSeq(str, i + 1, Min(T) - 1),
                        SubSeq(str, Min(T) + 1, Len(str))>>

\* l.215
Schemes == {<<"https:", "/", "/">>, <<"http:", "/", "/">>, <<"ftp:", "/", "/">>}
IsUrl(descriptor) == \E sch \in Schemes : StartsWith(descriptor, sch)

\* l.254
Marker == <<"vmware">>

\* a dict is a function on the keys it holds
EmptyDict == [k \in {} |-> <<>>]
WithVersion(mechfile, version) ==
    IF version # <<>> THEN mechfile @@ [version |-> version] ELSE mechfile

\* l.253-258: the first provider of v whose name holds the marker, 0 if none
RECURSIVE FirstProviderFrom(_, _)
FirstProviderFrom(providers, j) ==
    IF j > Len(providers) THEN 0
    ELSE IF Contains(providers[j].name, Marker) THEN j
    ELSE FirstProviderFrom(providers, j + 1)

\* (mutant) the last provider whose name holds the marker
RECURSIVE LastProviderFrom(_, _)
LastProviderFrom(providers, j) ==
    IF j > Len(providers) THEN 0
    ELSE LET later == LastProviderFrom(providers, j + 1)
         IN  IF later # 0 THEN later
             ELSE IF Contains(providers[j].name, Marker) THEN j ELSE 0

FirstProvider_Last(providers) == LastProviderFrom(providers, 1)

FirstProvider(providers) == FirstProviderFrom(providers, 1)

\* l.249-260: the loop over catalog['versions'], from version i on
RECURSIVE SelectFrom(_, _, _)
SelectFrom(catalog, version, i) ==
    IF i > Len(catalog.versions)
    THEN [kind |-> "exit", mechfile |-> EmptyDict, err |-> "not found"]
    ELSE LET v == catalog.versions[i]
             j == FirstProvider(v.providers)
         IN  IF (version = <<>> \/ v.version = version) /\ j # 0
             THEN [kind |-> "return",
                   mechfile |-> [box |-> catalog.name, version |-> v.version,
                                 url |-> v.providers[j].url],
                   err |-> "none"]
             ELSE SelectFrom(catalog, version, i + 1)

\* l.213-260.  world: isfile (the descriptor names a local file), parses (the
\* file is a JSON document, namely catalog), reachable (the catalog service
\* answers, with catalog).  The outcome: kind (return | exit), the mechfile,
\* the messages printed (invalid: l.239) and whether the catalog service was
\* asked (l.244).
build_mechfile(descriptor, name, version, world) ==
    IF IsUrl(descriptor)
    THEN [kind |-> "return",
          mechfile |-> WithVersion(
              [url |-> descriptor,
               box |-> IF name # <<>> THEN name
                       ELSE SplitextRoot(Basename(descriptor))], version),
          err |-> "none", invalid |-> FALSE, asked |-> FALSE]
    ELSE IF world.isfile
    THEN [kind |-> "return",
          mechfile |-> IF world.parses THEN EmptyDict
                       ELSE WithVersion(
                           [file |-> descriptor,
                            box |-> IF name # <<>> THEN name
                                    ELSE SplitextRoot(Basename(descriptor))], version),
          err |-> "none", invalid |-> FALSE, asked |-> FALSE]
    ELSE LET parts == Split3(descriptor)
             account == parts[1]
             boxname == parts[2]
             v == parts[3]
             wanted == IF v # <<>> THEN v ELSE version
             bad == account = <<>> \/ boxname = <<>>
         IN  IF ~world.reachable
             THEN [kind |-> "exit", mechfile |-> EmptyDict, err |-> "connect",
                   invalid |-> bad, asked |-> TRUE]
             ELSE SelectFrom(world.catalog, wanted, 1)
                      @@ [invalid |-> bad, asked |-> TRUE]

\* The inputs the model draws for a call
V10 == <<"1", ".", "0">>
V20 == <<"2", ".", "0">>
Versions == {V10, V20}
VmwareDesktop == <<"vmware", "_", "desktop">>
VirtualBox == <<"virtualbox">>
ProviderNames == {VmwareDesktop, VirtualBox}
SeqsUpTo(S, n) == UNION {[1..k -> S] : k \in 0..n}
\* the url of provider j of version i: each place of the catalog has its own
ProviderUrl(i, j) ==
    <<"https:", "/", "/", "example", "/", ToString(i), "/", ToString(j), ".", "box">>
MkCatalog(vs, ps) ==
    [name |-> <<"box1">>,
     versions |-> [i \in 1..Len(vs) |->
        [version |-> vs[i],
         providers |-> [j \in 1..Len(ps[i]) |->
            [name |-> ps[i][j], url |-> ProviderUrl(i, j)]]]]]
Catalogs ==
    {MkCatalog(vs, ps) :
        <<vs, ps>> \in UNION {[1..k -> Versions] \X [1..k -> SeqsUpTo(ProviderNames, MaxProviders)]
                        : k \in 0..MaxVersions}}
NoCatalog == MkCatalog(<<>>, <<>>)

UrlDescriptors == {<<"https:", "/", "/", "example", "/", "box1", ".", "box">>,
                   <<"http:", "/", "/", "example", "/">>}
PathDescriptors == {<<"boxes", "/", "local", ".", "box">>,
                    <<"acme", "/", "box1", "/", "1", ".", "0">>,
                    <<"acme", "/", "box1">>,
                    <<"box1">>}
NameArgs == {<<>>, <<"mybox">>}
VersionArgs == {<<>>, V10, V20}
Worlds ==
    {[isfile |-> TRUE, parses |-> FALSE, reachable |-> FALSE, catalog |-> NoCatalog],
     [isfile |-> FALSE, parses |-> FALSE, reachable |-> FALSE, catalog |-> NoCatalog]}
    \cup {[isfile |-> f, parses |-> f, reachable |-> ~f, catalog |-> c] :
            f \in BOOLEAN, c \in Catalogs}
\* a URL is resolved without a look at the file system or the catalog service
UrlWorld == [isfile |-> FALSE, parses |-> FALSE, reachable |-> FALSE, catalog |-> NoCatalog]
BuildInput(d, n, v, w) == [descriptor |-> d, name |-> n, version |-> v, world |-> w]

NotCalled == [kind |-> "none"]
BmIdle == [phase |-> "idle", in |-> NotCalled, out |-> NotCalled]

\* build_mechfile(descriptor, name, version) is called
BuildCall ==
    /\ bm.phase = "idle"
    /\ \E n \in NameArgs, v \in VersionArgs :
        \/ \E d \in UrlDescriptors :
            bm' = [phase |-> "called", in |-> BuildInput(d, n, v, UrlWorld), out |-> NotCalled]
        \/ \E d \in PathDescriptors, w \in Worlds :
            bm' = [phase |-> "called", in |-> BuildInput(d, n, v, w), out |-> NotCalled]
    /\ UNCHANGED <<regvars, boxvars, filevars>>

\* ... and runs to its return or its sys.exit(1)
BuildRun ==
    /\ bm.phase = "called"
    /\ bm' = [phase |-> "done", in |-> bm.in,
              out |-> build_mechfile(bm.in.descriptor, bm.in.name, bm.in.version,
                                     bm.in.world)]
    /\ UNCHANGED <<regvars, boxvars, filevars>>

(***************************************************************************)
(* The box cache: init_box, add_box, add_box_url, add_box_file             *)
(***************************************************************************)
\* A box archive is the list of the names of its entries; a name is a
\* sequence of pieces, "/" and "." standing alone.  The file at the cache
\* path is written by copyfile chunk by chunk: box.data holds what each
\* chunk of the file is, written ("data") or skipped over ("hole").
MaxEntries == 2
MaxChunks == 2

EndsWith(str, suffix) ==
    /\ Len(str) >= Len(suffix)
    /\ SubSeq(str, Len(str) - Len(suffix) + 1, Len(str)) = suffix

VmxEntry == <<"box", ".", "vmx">>
DiskEntry == <<"disk", ".", "vmdk">>
PlainVmxEntry == <<"my", "vmx">>
RootEntry == <<"/", "etc", "/", "passwd">>
ParentEntry == <<".", ".", "/", "evil">>
ParentVmxEntry == <<".", ".", "/", "evil", ".", "vmx">>
EntryNames == {VmxEntry, DiskEntry, PlainVmxEntry, RootEntry, ParentEntry, ParentVmxEntry}
Archives == SeqsUpTo(EntryNames, MaxEntries)
SmallArchives == {<<VmxEntry>>, <<DiskEntry>>}

\* l.341: i.startswith('/') or i.startswith('..')
UnsafeName(i) == StartsWith(i, <<"/">>) \/ StartsWith(i, <<".", ".">>)

\* l.328-330: tar -tf filename '*.vmx' ends with status 0 when an entry
\* matches the pattern
TarLists(files) == \E k \in 1..Len(files) : EndsWith(files[k], <<".", "vmx">>)

\* l.335-344: the loop over tar.getnames()
RECURSIVE GetnamesLoop(_, _)
GetnamesLoop(files, k) ==
    IF k > Len(files) THEN "invalid"
    ELSE IF EndsWith(files[k], <<"vmx">>) THEN "valid"
    ELSE IF UnsafeName(files[k]) THEN "fatal"
    ELSE GetnamesLoop(files, k + 1)

\* (mutant) every archive passes
IntegrityCheck_Accepts(os, files) == "valid"

\* l.328-344: the integrity check of add_box_file
IntegrityCheck(os, files) ==
    IF os = "posix"
    THEN IF TarLists(files) THEN "valid" ELSE "invalid"
    ELSE GetnamesLoop(files, 1)

\* shutil.copyfile: open(dst, 'wb') creates the file or empties it
Opened == [exists |-> TRUE, data |-> <<>>]
NoBox == [exists |-> FALSE, data |-> <<>>]
\* ... and each write lands at the writer's own offset
WriteAt(data, k) ==
    IF k <= Len(data) THEN [data EXCEPT ![k] = "data"]
    ELSE data \o [j \in 1..(k - Len(data) - 1) |-> "hole"] \o <<"data">>
Complete(b) == b.exists /\ b.data = [j \in 1..MaxChunks |-> "data"]

\* l.264-265: init_box(name, ...) calls add_box(name, name=name, ...)
BoxWorlds ==
    {[isfile |-> TRUE, parses |-> FALSE, reachable |-> FALSE, catalog |-> NoCatalog],
     [isfile |-> TRUE, parses |-> TRUE, reachable |-> FALSE, catalog |-> NoCatalog],
     [isfile |-> FALSE, parses |-> FALSE, reachable |-> FALSE, catalog |-> NoCatalog]}
    \cup {[isfile |-> FALSE, parses |-> FALSE, reachable |-> TRUE,
           catalog |-> MkCatalog(<<V10>>, <<<<n>>>>)] : n \in ProviderNames}
BoxInputs ==
    {BuildInput(d, d, <<>>, w) : d \in UrlDescriptors \cup PathDescriptors, w \in BoxWorlds}

BoxTerminal == {"returned_vmx", "returned_none", "exit_build", "exit_unsafe",
                "exit_extract", "raised"}
BpIdle == [pc |-> "idle", src |-> "none", force |-> FALSE, save |-> FALSE,
           files |-> <<>>, checked |-> FALSE, requested |-> FALSE,
           connected |-> FALSE, length |-> FALSE, copied |-> 0, result |-> None]
BoxInit ==
    /\ box = NoBox
    /\ boxdir = FALSE
    /\ osname \in {"posix", "nt"}
    /\ bp = [p \in Procs |-> BpIdle]
\* the box cache at rest, for the specifications of the other parts
BoxIdle == BoxInit /\ osname = "posix"

\* l.263-265 and l.288-298: init_box, and add_box up to the branch it takes
InitBoxCall(p) ==
    /\ bp[p].pc = "idle"
    /\ \E dotmech \in BOOLEAN, i \in BoxInputs, f \in BOOLEAN, s \in BOOLEAN :
        LET out == build_mechfile(i.descriptor, i.name, i.version, i.world)
            m == out.mechfile
            called == [BpIdle EXCEPT !.force = f, !.save = s]
        IN  bp' = [bp EXCEPT ![p] =
                IF dotmech THEN [BpIdle EXCEPT !.pc = "returned_vmx"]
                ELSE IF out.kind = "exit" THEN [BpIdle EXCEPT !.pc = "exit_build"]
                ELSE IF "file" \in DOMAIN m /\ m.file # <<>>
                     THEN [called EXCEPT !.pc = "check", !.src = "file"]
                ELSE IF "url" \in DOMAIN m /\ m.url # <<>>
                     THEN [called EXCEPT !.pc = "url_exists", !.src = "url"]
                ELSE [BpIdle EXCEPT !.pc = "returned_none"]]
    /\ UNCHANGED <<box, boxdir, osname>>
    /\ UNCHANGED <<regvars, bm, filevars>>

\* l.305-306: exists = os.path.exists(box); if not exists or force
UrlExists(p) ==
    /\ bp[p].pc = "url_exists"
    /\ bp' = [bp EXCEPT ![p] =
            IF ~box.exists \/ bp[p].force
            THEN [@ EXCEPT !.pc = "get"]
            ELSE [@ EXCEPT !.pc = "have_box", !.result = "cache"]]
    /\ UNCHANGED <<box, boxdir, osname>>
    /\ UNCHANGED <<regvars, bm, filevars>>

\* l.311-322: requests.get and the download to a temporary file.  The
\* request is refused (ConnectionError, caught at l.320, and the function
\* goes on to l.322), or is answered without a content-length header
\* (KeyError at l.313), or is answered and downloaded.
Get(p) ==
    /\ bp[p].pc = "get"
    /\ \E answer \in {"refused", "nolength", "ok"} :
        bp' = [bp EXCEPT ![p] =
            CASE answer = "refused" ->
                    [@ EXCEPT !.pc = "have_box", !.requested = TRUE,
                              !.connected = FALSE, !.result = "cache"]
              [] answer = "nolength" ->
                    [@ EXCEPT !.pc = "raised", !.requested = TRUE, !.connected = TRUE]
              [] answer = "ok" ->
                    [@ EXCEPT !.pc = "check", !.requested = TRUE, !.connected = TRUE,
                              !.length = TRUE]]
    /\ UNCHANGED <<box, boxdir, osname>>
    /\ UNCHANGED <<regvars, bm, filevars>>

\* l.325-344 and l.345-346, l.355-357: the integrity check of the archive
\* in filename, one of archives, and what add_box_file does with its verdict
Check(p, archives) ==
    /\ bp[p].pc = "check"
    /\ \E a \in archives :
        LET verdict == IntegrityCheck(osname, a)
            read == [bp[p] EXCEPT !.files = a, !.checked = TRUE]
        IN  bp' = [bp EXCEPT ![p] =
                CASE verdict = "fatal" -> [read EXCEPT !.pc = "exit_unsafe"]
                  [] verdict = "invalid" -> [read EXCEPT !.pc = "returned_none"]
                  [] verdict = "valid" ->
                        IF bp[p].save THEN [read EXCEPT !.pc = "path_exists"]
                        ELSE [read EXCEPT !.pc = "have_box", !.result = "file"]]
    /\ UNCHANGED <<box, boxdir, osname>>
    /\ UNCHANGED <<regvars, bm, filevars>>

\* l.351: if not os.path.exists(path)
PathExists(p) ==
    /\ bp[p].pc = "path_exists"
    /\ bp' = [bp EXCEPT ![p].pc = IF boxdir THEN "box_exists" ELSE "makedirs"]
    /\ UNCHANGED <<box, boxdir, osname>>
    /\ UNCHANGED <<regvars, bm, filevars>>

\* l.352: os.makedirs(path), which raises when the directory is there by now
MakedirsBox(p) ==
    /\ bp[p].pc = "makedirs"
    /\ bp' = [bp EXCEPT ![p].pc = IF boxdir THEN "raised" ELSE "box_exists"]
    /\ boxdir' = TRUE
    /\ UNCHANGED <<box, osname>>
    /\ UNCHANGED <<regvars, bm, filevars>>

\* l.353: if not os.path.exists(box) or force
BoxExists(p) ==
    /\ bp[p].pc = "box_exists"
    /\ bp' = [bp EXCEPT ![p] =
            IF ~box.exists \/ bp[p].force
            THEN [@ EXCEPT !.pc = "copy_open"]
            ELSE [@ EXCEPT !.pc = "have_box", !.result = "cache"]]
    /\ UNCHANGED <<box, boxdir, osname>>
    /\ UNCHANGED <<regvars, bm, filevars>>

\* l.354: copyfile(filename, box) opens the file at the cache path
CopyOpen(p) ==
    /\ bp[p].pc = "copy_open"
    /\ box' = Opened
    /\ bp' = [bp EXCEPT ![p].pc = "copy_write", ![p].copied = 0]
    /\ UNCHANGED <<boxdir, osname>>
    /\ UNCHANGED <<regvars, bm, filevars>>

\* l.354: ... and writes it, a chunk at a time; l.357 after the last one
CopyWrite(p) ==
    /\ bp[p].pc = "copy_write"
    /\ box' = [exists |-> TRUE, data |-> WriteAt(box.data, bp[p].copied + 1)]
    /\ bp' = [bp EXCEPT ![p] =
            IF bp[p].copied + 1 = MaxChunks
            THEN [@ EXCEPT !.pc = "have_box", !.copied = 0, !.result = "cache"]
            ELSE [@ EXCEPT !.copied = @ + 1]]
    /\ UNCHANGED <<boxdir, osname>>
    /\ UNCHANGED <<regvars, bm, filevars>>

\* l.268-285: init_box extracts the archive at the path it was given: the
\* file itself (result "file") or the file at the cache path
Extract(p) ==
    /\ bp[p].pc = "have_box"
    /\ bp' = [bp EXCEPT ![p].pc =
            IF bp[p].result = "file" \/ Complete(box) THEN "returned_vmx"
            ELSE IF osname = "posix" THEN "exit_extract" ELSE "raised"]
    /\ UNCHANGED <<box, boxdir, osname>>
    /\ UNCHANGED <<regvars, bm, filevars>>

\* the caller has seen how the call ended
BoxExit(p) ==
    /\ bp[p].pc \in BoxTerminal
    /\ bp' = [bp EXCEPT ![p] = BpIdle]
    /\ UNCHANGED <<box, boxdir, osname>>
    /\ UNCHANGED <<regvars, bm, filevars>>

BoxStep(p, archives) ==
    \/ InitBoxCall(p)
    \/ UrlExists(p)
    \/ Get(p)
    \/ Check(p, archives)
    \/ PathExists(p)
    \/ MakedirsBox(p)
    \/ BoxExists(p)
    \/ CopyOpen(p)
    \/ CopyWrite(p)
    \/ Extract(p)
    \/ BoxExit(p)

(***************************************************************************)
(* parse_vmx, update_vmx                                                   *)
(***************************************************************************)
\* A .vmx file is the list of its lines, a line a sequence of pieces: " ",
\* "=" and words.  An OrderedDict is the list of its items, in the order the
\* keys were first set.
MaxLines == 2
MaxRuns == 2

\* str.lstrip, str.rstrip, str.strip
LStrip(str) ==
    LET S == {i \in 1..Len(str) : str[i] # " "}
    IN  IF S = {} THEN <<>> ELSE SubSeq(str, Min(S), Len(str))
RStrip(str) ==
    LET S == {i \in 1..Len(str) : str[i] # " "}
    IN  IF S = {} THEN <<>> ELSE SubSeq(str, 1, Max(S))
Strip(str) == LStrip(RStrip(str))

\* l.93: line.strip().split('=', 1)
SplitLine(line) ==
    LET t == Strip(line)
        E == {i \in 1..Len(t) : t[i] = "="}
    IN  IF E = {} THEN <<t>>
        ELSE <<SubSeq(t, 1, Min(E) - 1), SubSeq(t, Min(E) + 1, Len(t))>>

\* vmx[key] = value
SetItem(vmx, key, value) ==
    IF \E i \in 1..Len(vmx) : vmx[i].key = key
    THEN [i \in 1..Len(vmx) |->
            IF vmx[i].key = key THEN [key |-> key, value |-> value] ELSE vmx[i]]
    ELSE Append(vmx, [key |-> key, value |-> value])

\* l.94 raises IndexError on a line without "="
Parses(file) == \A i \in 1..Len(file) : Len(SplitLine(file[i])) = 2

\* l.89-95, for a file that parses: the lines from line i on, put into vmx
RECURSIVE ParseFrom(_, _, _)
ParseFrom(file, i, vmx) ==
    IF i > Len(file) THEN vmx
    ELSE LET line == SplitLine(file[i])
         IN  ParseFrom(file, i + 1, SetItem(vmx, RStrip(line[1]), LStrip(line[2])))
parse_vmx(file) == ParseFrom(file, 1, <<>>)

\* l.107-115
AdapterItems ==
    << [key |-> <<"ethernet", "0.addresstype">>, value |-> <<"generated">>],
       [key |-> <<"ethernet", "0.bsdname">>, value |-> <<"en0">>],
       [key |-> <<"ethernet", "0.connectiontype">>, value |-> <<"nat">>],
       [key |-> <<"ethernet", "0.displayname">>, value |-> <<"Ethernet">>],
       [key |-> <<"ethernet", "0.linkstatepropagation.enable">>, value |-> <<"FALSE">>],
       [key |-> <<"ethernet", "0.pcislotnumber">>, value |-> <<"32">>],
       [key |-> <<"ethernet", "0.present">>, value |-> <<"TRUE">>],
       [key |-> <<"ethernet", "0.virtualdev">>, value |-> <<"e1000">>],
       [key |-> <<"ethernet", "0.wakeonpcktrcv">>, value |-> <<"FALSE">>] >>
RECURSIVE SetItems(_, _, _)
SetItems(vmx, items, i) ==
    IF i > Len(items) THEN vmx
    ELSE SetItems(SetItem(vmx, items[i].key, items[i].value), items, i + 1)

\* (mutant) no interface is ever found
HasInterface_Never(vmx) == FALSE

\* l.102-104: for vmx_key in vmx: if vmx_key.startswith('ethernet')
HasInterface(vmx) == \E i \in 1..Len(vmx) : StartsWith(vmx[i].key, <<"ethernet">>)

\* l.117-121: row = "{} = {}".format(key, value)
Rows(vmx) == [i \in 1..Len(vmx) |-> vmx[i].key \o <<" ", "=", " ">> \o vmx[i].value]

\* l.98-123: the value returned (or "raised") and the file left behind
update_vmx(file) ==
    IF ~Parses(file) THEN [ret |-> "raised", file |-> file]
    ELSE IF HasInterface(parse_vmx(file)) THEN [ret |-> "False", file |-> file]
    ELSE [ret |-> "True", file |-> Rows(SetItems(parse_vmx(file), AdapterItems, 1))]

\* the lines the files of the model are made of
RawLines ==
    { <<"memsize", " ", "=", " ", "1024">>,
      <<"memsize", "=", "2048">>,
      <<" ", "displayname", " ", " ", "=", "a", "=", "b", " ">>,
      <<"ethernet", "0.present", " ", "=", " ", "TRUE">>,
      <<"ethernet", "1.present", "=", "FALSE">>,
      <<"Ethernet", "0.present", " ", "=", " ", "TRUE">>,
      <<"=", "x">>,
      <<"memsize">>,
      <<>> }
VmxFiles == SeqsUpTo(RawLines, MaxLines)

VxIdle == [orig |-> <<>>, file |-> <<>>, log |-> <<>>]
VmxInit == vx \in {[orig |-> f, file |-> f, log |-> <<>>] : f \in VmxFiles}

\* update_vmx(path) runs on the file as the run before it left it
UpdateVmx ==
    /\ Len(vx.log) < MaxRuns
    /\ vx' = [vx EXCEPT !.file = update_vmx(vx.file).file,
                        !.log = Append(@, update_vmx(vx.file))]
    /\ UNCHANGED <<regvars, bm, boxvars, lm>>

(***************************************************************************)
(* load_mechfile                                                           *)
(***************************************************************************)
\* A path is absolute or relative and has a list of components: "/" is the
\* absolute path without components, "" the relative one.  A relative path
\* is looked up from the working directory of the process.
MaxDepth == 2
Comps == {"a", "b"}
AbsDirs == {[abs |-> TRUE, parts |-> s] : s \in SeqsUpTo(Comps, MaxDepth)}
NonePath == [abs |-> FALSE, parts |-> <<>>]

\* os.path.basename: what follows the last "/"
PathBasename(path) ==
    [abs |-> FALSE,
     parts |-> IF path.parts = <<>> THEN <<>> ELSE <<path.parts[Len(path.parts)]>>]

\* the directory a path names for a process whose working directory is cwd
Resolve(path, cwd) ==
    IF path.abs THEN path ELSE [abs |-> TRUE, parts |-> cwd.parts \o path.parts]

\* l.192: while pwd
PathTruthy(path) == path.abs \/ path.parts # <<>>

\* l.193-194: os.path.isfile(os.path.join(pwd, 'mechfile')), and what the
\* file is
MechfileAt(path, cwd, files) ==
    IF Resolve(path, cwd) \in DOMAIN files THEN files[Resolve(path, cwd)] ELSE "none"

\* l.201-202: new_pwd = os.path.basename(pwd);
\* pwd = None if new_pwd == pwd else new_pwd
NextPwd(path) ==
    IF PathBasename(path) = path THEN NonePath ELSE PathBasename(path)

LmIdle == [phase |-> "idle", pwd |-> NonePath, cwd |-> NonePath,
           files |-> [d \in {} |-> "none"], cur |-> NonePath,
           out |-> [kind |-> "none", dir |-> NonePath]]

\* load_mechfile(pwd) is called by a process whose working directory is cwd
LoadMechfileCall ==
    /\ lm.phase = "idle"
    /\ \E pwd \in AbsDirs, cwd \in AbsDirs, files \in [AbsDirs -> {"none", "valid", "invalid"}] :
        lm' = [LmIdle EXCEPT !.phase = "loop", !.pwd = pwd, !.cwd = cwd,
                             !.files = files, !.cur = pwd]
    /\ UNCHANGED <<regvars, bm, boxvars, vx>>

\* l.192-202: one turn of the loop
LoadMechfileLoop ==
    /\ lm.phase = "loop"
    /\ PathTruthy(lm.cur)
    /\ LET found == MechfileAt(lm.cur, lm.cwd, lm.files)
       IN  lm' = CASE found = "valid" ->
                        [lm EXCEPT !.phase = "done",
                                   !.out = [kind |-> "return",
                                            dir |-> Resolve(lm.cur, lm.cwd)]]
                   [] found = "invalid" ->
                        [lm EXCEPT !.phase = "done",
                                   !.out = [kind |-> "exit", dir |-> NonePath]]
                   [] found = "none" ->
                        [lm EXCEPT !.cur = NextPwd(lm.cur)]
    /\ UNCHANGED <<regvars, bm, boxvars, vx>>

\* l.203-210: the loop is over, sys.exit(1)
LoadMechfileExit ==
    /\ lm.phase = "loop"
    /\ ~PathTruthy(lm.cur)
    /\ lm' = [lm EXCEPT !.phase = "done", !.out = [kind |-> "exit", dir |-> NonePath]]
    /\ UNCHANGED <<regvars, bm, boxvars, vx>>

\* the other parts at rest
FilesIdle == vx = VxIdle /\ lm = LmIdle

(***************************************************************************)
(* Init                                                                    *)
(***************************************************************************)
RegInit ==
    /\ dataDir \in BOOLEAN
    /\ index = Absent
    /\ lock = Free
    /\ mechfiles \in SUBSET Paths
    /\ pc = [p \in Procs |-> "idle"]
    /\ op = [p \in Procs |-> "none"]
    /\ instance_name = [p \in Procs |-> "n1"]
    /\ obj = [p \in Procs |-> EmptyRec]
    /\ force = [p \in Procs |-> FALSE]
    /\ instances = [p \in Procs |-> EmptyDoc]
    /\ keys = [p \in Procs |-> {}]
    /\ todo = [p \in Procs |-> {}]
    /\ updated = [p \in Procs |-> FALSE]
    /\ instance_data = [p \in Procs |-> EmptyRec]

\* the registry at rest, for the specifications of the other parts
RegIdle ==
    /\ RegInit
    /\ dataDir = TRUE
    /\ mechfiles = {}

(***************************************************************************)
(* The calls                                                               *)
(***************************************************************************)
\* l.127 / l.156: the call begins with os.path.exists(DATA_DIR)
Call(p, o, n, ob, f) ==
    /\ pc[p] = "idle"
    /\ pc' = [pc EXCEPT ![p] = IF dataDir THEN "lock" ELSE "makedirs"]
    /\ op' = [op EXCEPT ![p] = o]
    /\ instance_name' = [instance_name EXCEPT ![p] = n]
    /\ obj' = [obj EXCEPT ![p] = ob]
    /\ force' = [force EXCEPT ![p] = f]
    /\ UNCHANGED <<dataDir, index, lock, mechfiles, locals>>
    /\ UNCHANGED <<bm, boxvars, filevars>>

\* instances()
CallInstances(p) == Call(p, "instances", "n1", EmptyRec, FALSE)

\* settle_instance(instance_name, obj=None, force=False)
CallSettleInstance(p) ==
    \E n \in Names, ob \in Records \cup {EmptyRec}, f \in BOOLEAN :
        Call(p, "settle_instance", n, ob, f)

\* init_mechfile(instance_name, ...) run in the working directory cwd:
\* index_active_instance calls settle_instance(instance_name, {'path': cwd})
CallInitMechfile(p) ==
    \E n \in Names, cwd \in Paths :
        Call(p, "init_mechfile", n, Rec(cwd), FALSE)

\* l.128 / l.157: os.makedirs(DATA_DIR)
Makedirs(p) ==
    /\ pc[p] = "makedirs"
    /\ ~dataDir
    /\ dataDir' = TRUE
    /\ pc' = [pc EXCEPT ![p] = "lock"]
    /\ UNCHANGED <<index, lock, mechfiles, args, locals>>
    /\ UNCHANGED <<bm, boxvars, filevars>>

\* os.makedirs raises OSError when the directory exists by now
MakedirsRaise(p) ==
    /\ pc[p] = "makedirs"
    /\ dataDir
    /\ pc' = [pc EXCEPT ![p] = "raised"]
    /\ UNCHANGED <<dataDir, index, lock, mechfiles, args, locals>>
    /\ UNCHANGED <<bm, boxvars, filevars>>

\* l.132-133 / l.161-162: with FileLock(index_lock, timeout=3): updated = False
Acquire(p) ==
    /\ pc[p] = "lock"
    /\ LockAvailable(p)
    /\ lock' = p
    /\ updated' = [updated EXCEPT ![p] = FALSE]
    /\ pc' = [pc EXCEPT ![p] = "load"]
    /\ UNCHANGED <<dataDir, index, mechfiles, args, instances, keys, todo, instance_data>>
    /\ UNCHANGED <<bm, boxvars, filevars>>

\* (mutant) the call that timed out goes on into the locked section
LockTimeout_Proceeds(p) ==
    /\ pc[p] = "lock"
    /\ lock \notin {Free, p}
    /\ pc' = [pc EXCEPT ![p] = "load"]
    /\ UNCHANGED <<dataDir, index, lock, mechfiles, args, locals>>
    /\ UNCHANGED <<bm, boxvars, filevars>>

\* l.150-152 / l.186-188: except Timeout: ... sys.exit(1)
LockTimeout(p) ==
    /\ pc[p] = "lock"
    /\ lock \notin {Free, p}
    /\ pc' = [pc EXCEPT ![p] = "exit_locked"]
    /\ UNCHANGED <<dataDir, index, lock, mechfiles, args, locals>>
    /\ UNCHANGED <<bm, boxvars, filevars>>

\* where the call goes when the prune loop is over: instances() to l.146,
\* settle_instance to l.175
AfterPrune(p) == IF op[p] = "instances" THEN "dump" ELSE "settle"

\* l.134-136, 144-145 / l.163-165, 173-174: load the document, or {}
Load(p) ==
    /\ pc[p] = "load"
    /\ index.st # "corrupt"
    /\ instances' = [instances EXCEPT ![p] = index.doc]
    /\ keys' = [keys EXCEPT ![p] = DOMAIN index.doc]
    /\ todo' = [todo EXCEPT ![p] = DOMAIN index.doc]
    /\ pc' = [pc EXCEPT ![p] = IF DOMAIN index.doc = {} THEN AfterPrune(p) ELSE "prune"]
    /\ UNCHANGED <<dataDir, index, lock, mechfiles, args, updated, instance_data>>
    /\ UNCHANGED <<bm, boxvars, filevars>>

\* json.load raises ValueError on a document that does not parse; the
\* exception leaves the with block, which releases the lock
LoadRaise(p) ==
    /\ pc[p] = "load"
    /\ index.st = "corrupt"
    /\ lock' = Released(p)
    /\ pc' = [pc EXCEPT ![p] = "raised"]
    /\ UNCHANGED <<dataDir, index, mechfiles, args, locals>>
    /\ UNCHANGED <<bm, boxvars, filevars>>

\* l.138-143 / l.167-172: one iteration of the prune loop
Prune(p) ==
    /\ pc[p] = "prune"
    /\ \E k \in todo[p] :
        /\ todo' = [todo EXCEPT ![p] = @ \ {k}]
        /\ pc' = [pc EXCEPT ![p] = IF todo[p] = {k} THEN AfterPrune(p) ELSE "prune"]
        /\ IF Unexistent(instances[p][k])
           THEN /\ instances' = [instances EXCEPT ![p] =
                        [j \in DOMAIN @ \ {k} |-> @[j]]]
                /\ updated' = [updated EXCEPT ![p] = TRUE]
           ELSE UNCHANGED <<instances, updated>>
    /\ UNCHANGED <<dataDir, index, lock, mechfiles, args, keys, instance_data>>
    /\ UNCHANGED <<bm, boxvars, filevars>>

\* l.175-181
Settle(p) ==
    /\ pc[p] = "settle"
    /\ instance_data' = [instance_data EXCEPT ![p] =
            SettledData(instances[p], instance_name[p], obj[p], force[p])]
    /\ instances' = [instances EXCEPT ![p] =
            SettledInstances(@, instance_name[p], obj[p], force[p])]
    /\ updated' = [updated EXCEPT ![p] =
            @ \/ Installs(instances[p], instance_name[p], obj[p], force[p])]
    /\ pc' = [pc EXCEPT ![p] = "dump"]
    /\ UNCHANGED <<dataDir, index, lock, mechfiles, args, keys, todo>>
    /\ UNCHANGED <<bm, boxvars, filevars>>

\* (mutant) the document is written whether or not anything changed
Dump_Always(p) ==
    /\ pc[p] = "dump"
    /\ index' = Ok(instances[p])
    /\ pc' = [pc EXCEPT ![p] = "return"]
    /\ UNCHANGED <<dataDir, lock, mechfiles, args, locals>>
    /\ UNCHANGED <<bm, boxvars, filevars>>

\* l.146-148 / l.182-184: if updated: json.dump(instances, fp, ...)
Dump(p) ==
    /\ pc[p] = "dump"
    /\ index' = IF updated[p] THEN Ok(instances[p]) ELSE index
    /\ pc' = [pc EXCEPT ![p] = "return"]
    /\ UNCHANGED <<dataDir, lock, mechfiles, args, locals>>
    /\ UNCHANGED <<bm, boxvars, filevars>>

\* open(index_path, 'w') or json.dump raises (IOError): the document is left
\* as it was, or truncated; the exception leaves the with block
DumpRaise(p) ==
    /\ pc[p] = "dump"
    /\ updated[p]
    /\ \E truncated \in BOOLEAN : index' = IF truncated THEN Corrupt ELSE index
    /\ lock' = Released(p)
    /\ pc' = [pc EXCEPT ![p] = "raised"]
    /\ instances' = [instances EXCEPT ![p] = EmptyDoc]
    /\ keys' = [keys EXCEPT ![p] = {}]
    /\ todo' = [todo EXCEPT ![p] = {}]
    /\ UNCHANGED <<dataDir, mechfiles, args, updated, instance_data>>
    /\ UNCHANGED <<bm, boxvars, filevars>>

\* l.365-370: index_active_instance compares the settled path with cwd
AfterReturn(p) ==
    IF op[p] # "init_mechfile" THEN "returned"
    ELSE IF instance_data[p].path # obj[p].path THEN "exit_duplicate" ELSE "build"

\* l.149 / l.185: return inside the with block: the lock is released and the
\* locals of the call are gone (updated and instance_data are kept as the
\* outcome of the call)
Return(p) ==
    /\ pc[p] = "return"
    /\ lock' = Released(p)
    /\ pc' = [pc EXCEPT ![p] = AfterReturn(p)]
    /\ instances' = [instances EXCEPT ![p] = EmptyDoc]
    /\ keys' = [keys EXCEPT ![p] = {}]
    /\ todo' = [todo EXCEPT ![p] = {}]
    /\ UNCHANGED <<dataDir, index, mechfiles, args, updated, instance_data>>
    /\ UNCHANGED <<bm, boxvars, filevars>>

\* l.375: build_mechfile returns a mechfile or ends the process
Build(p) ==
    /\ pc[p] = "build"
    /\ \E ok \in BOOLEAN :
        pc' = [pc EXCEPT ![p] = IF ok THEN "save" ELSE "exit_build"]
    /\ UNCHANGED <<dataDir, index, lock, mechfiles, args, locals>>
    /\ UNCHANGED <<bm, boxvars, filevars>>

\* l.76-79, l.377: save_mechfile(mechfile, path)
SaveMechfile(p) ==
    /\ pc[p] = "save"
    /\ mechfiles' = mechfiles \cup {obj[p].path}
    /\ pc' = [pc EXCEPT ![p] = "returned"]
    /\ UNCHANGED <<dataDir, index, lock, args, locals>>
    /\ UNCHANGED <<bm, boxvars, filevars>>

\* the invocation is over; the process is free for the next one
Exit(p) ==
    /\ pc[p] \in Terminal
    /\ pc' = [pc EXCEPT ![p] = "idle"]
    /\ op' = [op EXCEPT ![p] = "none"]
    /\ instance_name' = [instance_name EXCEPT ![p] = "n1"]
    /\ obj' = [obj EXCEPT ![p] = EmptyRec]
    /\ force' = [force EXCEPT ![p] = FALSE]
    /\ instances' = [instances EXCEPT ![p] = EmptyDoc]
    /\ keys' = [keys EXCEPT ![p] = {}]
    /\ todo' = [todo EXCEPT ![p] = {}]
    /\ updated' = [updated EXCEPT ![p] = FALSE]
    /\ instance_data' = [instance_data EXCEPT ![p] = EmptyRec]
    /\ UNCHANGED <<dataDir, index, lock, mechfiles>>
    /\ UNCHANGED <<bm, boxvars, filevars>>

\* the start of an invocation
Invoke(p) ==
    \/ CallInstances(p)
    \/ CallSettleInstance(p)
    \/ CallInitMechfile(p)

\* one step of a running invocation that needs no other process
Step(p) ==
    \/ Makedirs(p)
    \/ Acquire(p)
    \/ Load(p)
    \/ LoadRaise(p)
    \/ Prune(p)
    \/ Settle(p)
    \/ Dump(p)
    \/ DumpRaise(p)
    \/ Return(p)
    \/ Build(p)
    \/ SaveMechfile(p)
    \/ Exit(p)

\* Concurrent invocations: any interleaving of the steps of the processes.
\* The outcome of a finished invocation is kept until Exit; an invocation
\* starts when no outcome of another process is waiting, so the invocations
\* whose outcomes are seen together have run concurrently.
Collected(p) == \A q \in Procs \ {p} : pc[q] \notin Terminal
RegNext ==
    \E p \in Procs :
        \/ Collected(p) /\ Invoke(p)
        \/ Step(p)
        \/ MakedirsRaise(p)
        \/ LockTimeout(p)

Init == RegInit /\ bm = BmIdle /\ BoxIdle /\ FilesIdle
Next == RegNext
Spec == Init /\ [][Next]_vars

\* Consecutive invocations: First runs calls one after the other; when one of
\* its calls is over, Second may run one call, during which First stays where
\* it ended.  So whenever Second is inside a call, First's last call is the
\* call made immediately before it.
First == "p1"
Second == "p2"
SeqNext ==
    \/ pc[Second] \in {"idle"} \cup Terminal /\ (Invoke(First) \/ Step(First))
    \/ pc[First] \in Terminal /\ pc[Second] \notin Terminal
            /\ (Invoke(Second) \/ Step(Second))
    \/ pc[First] \notin Terminal /\ Exit(Second)
SpecSeq == Init /\ [][SeqNext]_vars

\* Calls of build_mechfile on every input of BuildCall
BuildInit == RegIdle /\ bm = BmIdle /\ BoxIdle /\ FilesIdle
BuildNext == BuildCall \/ BuildRun
SpecBuild == BuildInit /\ [][BuildNext]_vars

\* Concurrent calls of init_box for one cache path
CacheInit == RegIdle /\ bm = BmIdle /\ BoxInit /\ FilesIdle
CacheNext == \E p \in Procs : BoxStep(p, SmallArchives)
SpecCache == CacheInit /\ [][CacheNext]_vars

\* Runs of update_vmx, one after the other, on the files of VmxFiles
VmxSpecInit == RegIdle /\ bm = BmIdle /\ BoxIdle /\ VmxInit /\ lm = LmIdle
VmxNext == UpdateVmx
SpecVmx == VmxSpecInit /\ [][VmxNext]_vars

\* Calls of load_mechfile
LoadInit == RegIdle /\ bm = BmIdle /\ BoxIdle /\ FilesIdle
LoadNext == LoadMechfileCall \/ LoadMechfileLoop \/ LoadMechfileExit
SpecLoad == LoadInit /\ [][LoadNext]_vars

\* One process calling init_box, on every archive of Archives
ArchiveNext == BoxStep(First, Archives)
SpecArchive == CacheInit /\ [][ArchiveNext]_vars

(***************************************************************************)
(* Properties of the registry                                              *)
(***************************************************************************)
\* The step of a call that writes the document or leaves it: before it the
\* index is the document the call found, after it the document the call left.
Commit(p) == pc[p] = "dump" /\ pc'[p] = "return"

\* the call of p went through its load-prune-write cycle and returned
CycleDone(p) == pc[p] \in {"returned", "exit_duplicate", "build", "save", "exit_build"}

\* a record of the document whose directory holds no mechfile now
NoMechfile(rec) == rec.path \notin mechfiles

SamePathRecs(p, q) ==
    /\ op[p] = "settle_instance" /\ op[q] = "settle_instance"
    /\ instance_name[p] = instance_name[q]
    /\ obj[p].path \in Paths /\ obj[q].path \in Paths
    /\ obj[p] # obj[q]

\* C1: settle_instance(N, {path: A}) followed by settle_instance(N, {path: B})
\* returns A's record both times and leaves N mapped to A when force is not
\* set; with force the second call installs B's record and returns it.
C1_ClaimExclusivity ==
    [][(/\ Commit(Second)
        /\ pc[First] = "returned"
        /\ SamePathRecs(First, Second)
        /\ ~force[First]
        /\ instance_data[First] = obj[First])
       => /\ index'.st = "ok"
          /\ instance_name[Second] \in DOMAIN index'.doc
          /\ IF force[Second]
             THEN /\ instance_data[Second] = obj[Second]
                  /\ index'.doc[instance_name[Second]] = obj[Second]
             ELSE /\ instance_data[Second] = obj[First]
                  /\ index'.doc[instance_name[Second]] = obj[First]]_vars

\* C2: the load-prune-write cycles of the processes never overlap: at most one
\* process is inside the cycle, and it holds the lock; while it is inside, the
\* document on disk is the one it loaded, and what it wrote is its copy; and
\* when two concurrent settle_instance calls for distinct names have installed
\* records whose paths hold a mechfile, the document holds both records.
C2_InCycle(p) == pc[p] \in Holding
C2_Mutex ==
    /\ \A p, q \in Procs : C2_InCycle(p) /\ C2_InCycle(q) => p = q
    /\ \A p \in Procs : C2_InCycle(p) <=> lock = p
C2_CopyIsDocument ==
    \A p \in Procs :
        /\ pc[p] \in {"prune", "settle", "dump"} =>
            /\ index.st # "corrupt"
            /\ DOMAIN index.doc = keys[p]
            /\ \A k \in DOMAIN instances[p] :
                \/ k \in keys[p] /\ instances[p][k] = index.doc[k]
                \/ pc[p] = "dump" /\ k = instance_name[p] /\ instances[p][k] = obj[p]
        /\ pc[p] = "return" /\ updated[p] => index = Ok(instances[p])
C2_Installed(p) ==
    /\ pc[p] = "returned"
    /\ op[p] = "settle_instance"
    /\ instance_data[p] = obj[p]
    /\ obj[p].path \in mechfiles
C2_NoRecordLost ==
    \A p, q \in Procs :
        (/\ C2_Installed(p) /\ C2_Installed(q)
         /\ instance_name[p] # instance_name[q])
        => /\ index.st = "ok"
           /\ instance_name[p] \in DOMAIN index.doc
           /\ index.doc[instance_name[p]] = obj[p]
C2_Serialized == C2_Mutex /\ C2_CopyIsDocument /\ C2_NoRecordLost
C2_Witness ==
    \E p, q \in Procs :
        /\ C2_Installed(p) /\ C2_Installed(q)
        /\ instance_name[p] # instance_name[q]
        /\ updated[p] /\ updated[q]
        /\ obj[p] # obj[q]

\* C3 (as stated): a call that finds a record R whose path is missing or holds
\* no mechfile removes R from the document and writes the document; the call
\* made immediately after a call that was given no candidate and wrote (so it
\* pruned) performs no write.
C3_LazyPruningClaim ==
    [][/\ \A p \in Procs : Commit(p) =>
            \A k \in DOMAIN index.doc :
                NoMechfile(index.doc[k]) =>
                    /\ updated[p]
                    /\ index' = Ok(instances[p])
                    /\ ~(k \in DOMAIN index'.doc /\ index'.doc[k] = index.doc[k])
       /\ (/\ Commit(Second)
           /\ CycleDone(First) /\ obj[First] = EmptyRec /\ updated[First])
          => ~updated[Second]]_vars

\* the call of p installs its candidate: l.176-178 on the document it found
C3_Installs(p) ==
    /\ op[p] # "instances"
    /\ obj[p] # EmptyRec
    /\ \/ force[p]
       \/ instance_name[p] \notin DOMAIN index.doc
       \/ NoMechfile(index.doc[instance_name[p]])

\* C3 (amended): a call that finds a record R whose path is missing or holds
\* no mechfile writes the document, and R is gone from it unless the call is a
\* settle_instance that installs its candidate under R's name; the call made
\* immediately afterwards writes the document only if it installs its own
\* candidate or prunes the candidate the first call was given.
C3_LazyPruning ==
    [][/\ \A p \in Procs : Commit(p) =>
            \A k \in DOMAIN index.doc :
                NoMechfile(index.doc[k]) =>
                    /\ updated[p]
                    /\ index' = Ok(instances[p])
                    /\ \/ k \notin DOMAIN index'.doc
                       \/ /\ C3_Installs(p)
                          /\ k = instance_name[p]
                          /\ index'.doc[k] = obj[p]
       /\ (Commit(Second) /\ CycleDone(First) /\ updated[Second]) =>
            \/ C3_Installs(Second)
            \/ \A k \in DOMAIN index.doc \ DOMAIN index'.doc :
                /\ op[First] # "instances"
                /\ k = instance_name[First]
                /\ index.doc[k] = obj[First]]_vars
C3_Witness ==
    /\ pc[First] = "returned" /\ op[First] = "instances" /\ updated[First]
    /\ pc[Second] = "return" /\ ~updated[Second]
    /\ index.st = "ok"

\* C6: a process holds the registry lock only inside the with block: wherever
\* a call has returned, timed out or raised, the lock is not held by it.
C6_LockReleased == \A p \in Procs : lock = p => pc[p] \in Holding
C6_Witness ==
    \E p, q \in Procs :
        /\ pc[p] = "raised" /\ index.st = "corrupt" /\ updated[p]
        /\ pc[q] = "exit_locked"
        /\ lock = Free

\* C7: when the pruned registry maps the name to a path other than the working
\* directory, index_active_instance is returned that record, leaves it in the
\* document, and ends in the DuplicateInstance exit.
C7_Conflict(p) ==
    /\ op[p] = "init_mechfile"
    /\ index.st = "ok"
    /\ instance_name[p] \in DOMAIN index.doc
    /\ ~NoMechfile(index.doc[instance_name[p]])
    /\ index.doc[instance_name[p]].path # obj[p].path
C7_DuplicateInstance ==
    [][\A p \in Procs :
        /\ (Commit(p) /\ C7_Conflict(p)) =>
            /\ instance_data[p] = index.doc[instance_name[p]]
            /\ index'.st = "ok"
            /\ instance_name[p] \in DOMAIN index'.doc
            /\ index'.doc[instance_name[p]] = index.doc[instance_name[p]]
        /\ (pc[p] = "return" /\ C7_Conflict(p) /\ pc'[p] # "return") =>
            /\ pc'[p] = "exit_duplicate"
            /\ instance_data'[p] = index.doc[instance_name[p]]
            /\ index' = index]_vars
C7_Witness ==
    \E p \in Procs :
        /\ pc[p] = "exit_duplicate"
        /\ index.st = "ok"
        /\ instance_name[p] \in DOMAIN index.doc
        /\ index.doc[instance_name[p]] = instance_data[p]
        /\ instance_data[p].path \in Paths \ {obj[p].path}

\* C12: a call waiting for the lock leaves the wait either holding the lock
\* or, the lock being another's, at the fatal exit, having read nothing,
\* pruned nothing and written nothing; from the fatal exit the process only
\* ends, it does not go back for the lock.
C12_RegistryLocked ==
    [][\A p \in Procs :
        /\ pc[p] = "lock" /\ pc'[p] # "lock" =>
            \/ lock = Free /\ lock' = p /\ pc'[p] = "load"
            \/ /\ lock \notin {Free, p}
               /\ pc'[p] = "exit_locked"
               /\ lock' = lock
               /\ index' = index
               /\ instances'[p] = EmptyDoc
               /\ ~updated'[p]
        /\ pc[p] = "exit_locked" => pc'[p] \in {"exit_locked", "idle"}]_vars

\* a call has timed out on a lock that another call holds
C12_Witness ==
    \E p \in Procs, q \in Procs :
        /\ p # q
        /\ pc[p] = "exit_locked"
        /\ lock = q
        /\ pc[q] \in {"load", "prune", "settle", "dump", "return"}

\* the records of the document that instances() has to prune
C13_Stale == {k \in DOMAIN index.doc : NoMechfile(index.doc[k])}

\* C13: an instances() call leaves the persisted document exactly as it
\* found it when no record needs pruning, in particular when it comes right
\* after another instances() call; when it does write, the document it
\* writes is the one it found less the pruned records.
C13_IdempotentSerialization ==
    [][\A p \in Procs :
        Commit(p) /\ op[p] = "instances" =>
            /\ C13_Stale = {} => index' = index
            /\ index' # index =>
                /\ C13_Stale # {}
                /\ index' = [st |-> "ok",
                             doc |-> [k \in DOMAIN index.doc \ C13_Stale |-> index.doc[k]]]
            /\ p = Second /\ op[First] = "instances" /\ pc[First] = "returned"
                    => index' = index]_vars

\* two instances() calls in a row over a document that holds a record
C13_Witness ==
    /\ op[First] = "instances" /\ pc[First] = "returned"
    /\ op[Second] = "instances" /\ pc[Second] = "return"
    /\ index.st = "ok"
    /\ DOMAIN index.doc # {}

\* p has settled (l.175-181) and has not written yet
C15_Settled(p) == op[p] = "settle_instance" /\ pc[p] = "dump"

\* C15: a settle_instance call given no candidate returns the record the
\* pruned document holds for the name, forced or not, and the empty record
\* only when the document holds none.
C15_ExistingReturned ==
    \A p \in Procs :
        C15_Settled(p) /\ obj[p] = EmptyRec =>
            instance_data[p] =
                IF instance_name[p] \in DOMAIN instances[p]
                THEN instances[p][instance_name[p]]
                ELSE EmptyRec

\* p runs init_mechfile and is between its claim of the name in the
\* registry (index_active_instance has returned) and the end of save_mechfile
C19_Claiming(p) == op[p] = "init_mechfile" /\ pc[p] \in {"build", "save"}

\* C19: while a process is between its registry claim and the writing of its
\* mechfile, the document maps the name to its directory, and no process
\* running init_mechfile for that name from another directory is there too.
C19_NameOwnership ==
    \A p \in Procs :
        C19_Claiming(p) =>
            /\ index.st = "ok"
            /\ instance_name[p] \in DOMAIN index.doc
            /\ index.doc[instance_name[p]] = obj[p]
            /\ \A q \in Procs \ {p} :
                  C19_Claiming(q) /\ instance_name[q] = instance_name[p]
                        => obj[q] = obj[p]

\* C20: a call that found the data directory missing goes on from its
\* os.makedirs to the lock, whatever another call has done in between.
C20_LazyDataDir ==
    [][\A p \in Procs :
        pc[p] = "makedirs" /\ pc'[p] # "makedirs" => pc'[p] = "lock" /\ dataDir']_vars

(***************************************************************************)
(* Properties of the box cache                                             *)
(***************************************************************************)
\* p has been handed the cache path without having asked for a download
C4_FoundCached(p) ==
    /\ bp[p].src = "url"
    /\ bp[p].pc = "have_box"
    /\ bp[p].result = "cache"
    /\ ~bp[p].requested

\* C4: in every reachable state of concurrent calls for one cache path, the
\* file at the cache path is absent or holds the complete archive, and a
\* process that found the path existing and returned it without downloading
\* holds the path of a complete archive.
C4_NeverPartial ==
    /\ box.exists => Complete(box)
    /\ \A p \in Procs : C4_FoundCached(p) => Complete(box)

\* an entry of the archive p read begins with "/" or ".."
C5_HasUnsafeEntry(p) ==
    \E k \in 1..Len(bp[p].files) :
        \/ bp[p].files[k][1] = "/"
        \/ Len(bp[p].files[k]) >= 2 /\ bp[p].files[k][1] = "." /\ bp[p].files[k][2] = "."

\* C5: once the integrity check has read an archive with an entry whose
\* name begins with "/" or "..", whatever the place of the entry and
\* whatever else the archive holds, the call has ended fatally; it neither
\* copies nor extracts the archive.
C5_ArchiveSafety ==
    \A p \in Procs :
        bp[p].checked /\ C5_HasUnsafeEntry(p) => bp[p].pc \in {"exit_unsafe", "idle"}

\* C10: when the request for the URL has been refused, the call has failed
\* with the error: add_box_url has handed no archive path to its caller.
C10_NetworkError ==
    \A p \in Procs :
        bp[p].requested /\ ~bp[p].connected =>
            /\ bp[p].result = None
            /\ bp[p].pc \in {"raised", "idle"}

\* the archive p read has an entry ending in vmx
C11_HasVmx(p) ==
    \E k \in 1..Len(bp[p].files) :
        bp[p].files[k][Len(bp[p].files[k])] = "vmx"

\* p's archive was read and found without such an entry
C11_CheckFailed(p) == bp[p].checked /\ ~C11_HasVmx(p)

C17_NoLength(p) == bp[p].requested /\ bp[p].connected /\ ~bp[p].length

\* C17: a call whose request was answered without a content-length header
\* has not failed for it: the body is in the temporary file and the
\* integrity check is next or done.
C17_LengthOptional ==
    \A p \in Procs :
        C17_NoLength(p) =>
            /\ bp[p].pc # "raised"
            /\ bp[p].checked \/ bp[p].pc = "check"

(***************************************************************************)
(* Properties of update_vmx                                                *)
(***************************************************************************)
\* a line of the file update_vmx was first run on sets a key beginning with
\* the adapter prefix
C14_HadAdapter ==
    \E i \in 1..Len(vx.orig) :
        \E k \in 1..Len(vx.orig[i]) :
            /\ vx.orig[i][k] = "ethernet"
            /\ \A j \in 1..(k - 1) : vx.orig[i][j] = " "

\* C14: every run after the first leaves the file as the first run left it
\* and writes nothing; a file that already sets an adapter key is left as it
\* was by the first run too; a first run that writes keeps the keys the file
\* had, with their values and in their order, and puts the adapter keys
\* after them, each once.
C14_IdempotentInjection ==
    /\ \A i \in 2..Len(vx.log) :
          /\ vx.log[i].file = vx.log[1].file
          /\ vx.log[i].ret # "True"
    /\ Len(vx.log) >= 1 =>
          /\ vx.file = vx.log[1].file
          /\ C14_HadAdapter => vx.log[1].ret # "True" /\ vx.log[1].file = vx.orig
          /\ vx.log[1].ret # "True" => vx.log[1].file = vx.orig
          /\ vx.log[1].ret = "True" =>
                /\ parse_vmx(vx.log[1].file) = parse_vmx(vx.orig) \o AdapterItems
                /\ Len(vx.log[1].file) = Len(parse_vmx(vx.orig)) + Len(AdapterItems)

\* update_vmx has run twice on a file of two different lines, writing the
\* first time and not the second
C14_Witness ==
    /\ Len(vx.log) = 2
    /\ Len(vx.orig) = 2
    /\ vx.orig[1] # vx.orig[2]
    /\ vx.log[1].ret = "True"
    /\ vx.log[2].ret = "False"
    /\ vx.file # vx.orig

(***************************************************************************)
(* Properties of build_mechfile                                            *)
(***************************************************************************)
C8_Returned == bm.phase = "done" /\ bm.out.kind = "return"

\* C8: whenever build_mechfile returns, for a URL, a local file (a catalog
\* document or not) or a catalog reference, the result has a non-empty box
\* and exactly one of url and file; for a local file that is a catalog
\* document it is the entry selected from that document.
C8_BoxDescriptor ==
    C8_Returned =>
        LET m == bm.out.mechfile
        IN  /\ "box" \in DOMAIN m
            /\ m.box # <<>>
            /\ ("url" \in DOMAIN m) # ("file" \in DOMAIN m)
            /\ ~IsUrl(bm.in.descriptor) /\ bm.in.world.isfile /\ bm.in.world.parses
                    => "url" \in DOMAIN m
                        /\ \E i \in 1..Len(bm.in.world.catalog.versions) :
                             \E j \in 1..Len(bm.in.world.catalog.versions[i].providers) :
                                m.url = bm.in.world.catalog.versions[i].providers[j].url

\* the call went to the catalog service, which answered
C9_Selected ==
    /\ bm.phase = "done"
    /\ bm.in.descriptor \in PathDescriptors
    /\ ~bm.in.world.isfile
    /\ bm.in.world.reachable

\* the version asked for: the third segment of the descriptor, else the argument
C9_Requested ==
    IF bm.in.descriptor = <<"acme", "/", "box1", "/", "1", ".", "0">>
    THEN <<"1", ".", "0">>
    ELSE bm.in.version

\* the places <<i, j>> of the catalog that qualify
C9_Matches ==
    LET vs == bm.in.world.catalog.versions
    IN  {ij \in (1..Len(vs)) \X (1..MaxProviders) :
            /\ ij[2] <= Len(vs[ij[1]].providers)
            /\ C9_Requested = <<>> \/ vs[ij[1]].version = C9_Requested
            /\ \E k \in 1..Len(vs[ij[1]].providers[ij[2]].name) :
                    vs[ij[1]].providers[ij[2]].name[k] = "vmware"}

\* ij comes before every other place of S in document order
C9_Earliest(ij, S) ==
    \A o \in S : ij[1] < o[1] \/ (ij[1] = o[1] /\ ij[2] <= o[2])

\* C9: the result is the catalog's name, the version and the url of the
\* first qualifying provider in document order: of versions 2.0, 1.0 with no
\* version asked for the 2.0 entry, with 1.0 asked for the 1.0 entry
\* wherever it stands; when no place qualifies the call exits and returns
\* nothing.
C9_FirstMatch ==
    C9_Selected =>
        LET cat == bm.in.world.catalog
        IN  IF C9_Matches = {}
            THEN bm.out.kind = "exit" /\ bm.out.mechfile = EmptyDict
            ELSE /\ bm.out.kind = "return"
                 /\ \E ij \in C9_Matches :
                      /\ C9_Earliest(ij, C9_Matches)
                      /\ bm.out.mechfile =
                            [box |-> cat.name,
                             version |-> cat.versions[ij[1]].version,
                             url |-> cat.versions[ij[1]].providers[ij[2]].url]
                 /\ C9_Requested = <<"1", ".", "0">>
                        => bm.out.mechfile.version = <<"1", ".", "0">>

\* versions 2.0 then 1.0, each with two vmware providers, no version asked
\* for: the first provider of the 2.0 entry is returned
C9_Witness ==
    /\ C9_Selected
    /\ C9_Requested = <<>>
    /\ Len(bm.in.world.catalog.versions) = 2
    /\ bm.in.world.catalog.versions[1].version = <<"2", ".", "0">>
    /\ bm.in.world.catalog.versions[2].version = <<"1", ".", "0">>
    /\ \A i \in 1..2 :
          /\ Len(bm.in.world.catalog.versions[i].providers) = 2
          /\ \A j \in 1..2 : bm.in.world.catalog.versions[i].providers[j].name[1] = "vmware"
    /\ bm.out.kind = "return"
    /\ bm.out.mechfile.version = <<"2", ".", "0">>
    /\ bm.out.mechfile.url = bm.in.world.catalog.versions[1].providers[1].url

\* the descriptor was taken for a catalog reference and has no "/", so no
\* box segment
C16_LacksSegment ==
    /\ bm.phase = "done"
    /\ bm.in.descriptor \in PathDescriptors
    /\ ~bm.in.world.isfile
    /\ \A k \in 1..Len(bm.in.descriptor) : bm.in.descriptor[k] # "/"

\* C16: for a catalog reference without an account or a box segment
\* build_mechfile exits, has not asked the catalog service and returns no
\* descriptor.
C16_InvalidDescriptor ==
    C16_LacksSegment =>
        /\ bm.out.kind = "exit"
        /\ ~bm.out.asked
        /\ bm.out.mechfile = EmptyDict

(***************************************************************************)
(* Properties of load_mechfile                                             *)
(***************************************************************************)
\* the directory pwd and its ancestors, by the number of their components
C18_Ancestor(n) == [abs |-> TRUE, parts |-> SubSeq(lm.pwd.parts, 1, n)]

\* those of them that hold a mechfile
C18_Holders == {n \in 0..Len(lm.pwd.parts) : lm.files[C18_Ancestor(n)] # "none"}

\* C18: load_mechfile(pwd) ends in the fatal error when neither pwd nor a
\* directory above it holds a mechfile, and otherwise returns the mechfile of
\* the nearest of them that holds one (a mechfile that does not parse aside).
C18_NearestAncestor ==
    lm.phase = "done" =>
        IF C18_Holders = {}
        THEN lm.out.kind = "exit"
        ELSE lm.files[C18_Ancestor(Max(C18_Holders))] = "valid" =>
                /\ lm.out.kind = "return"
                /\ lm.out.dir = C18_Ancestor(Max(C18_Holders))

====
